---- MODULE Spec2Model ----
(***************************************************************************)
(* HdRezkaDownloader.py as a state machine: main(), process_series(),      *)
(* process_movie(), select_translator(), select_quality(),                 *)
(* get_user_choice() and DownloadManager.download_file().                  *)
(*                                                                         *)
(* Strings the code inspects by substring (translator names, quality       *)
(* labels) are sequences of one-character strings, so that `in` is a real  *)
(* substring test.  Console input is a string token that int() has to      *)
(* parse.                                                                  *)
(***************************************************************************)
EXTENDS Integers, Sequences, FiniteSets, TLC

\* ------------------------------------------------------------------ bounds
MaxTranslators == 2   \* translator ids are 1..MaxTranslators
MaxEntries == 2       \* (translator, season, episode) entries in one seriesInfo
MaxCalls == 2         \* download_file calls in all
MaxChunks == 2        \* chunks iter_content yields in one call
MaxShown == 3         \* quality labels handed to select_quality on its own

TranslatorIds == 1..MaxTranslators
\* the season and episode numbers a seriesInfo is drawn from
Seasons == {1, 2}
Episodes == {1, 2}

None == "None"

\* ------------------------------------------------------- generic helpers
Range(s) == {s[i] : i \in DOMAIN s}

Min(S) == CHOOSE x \in S : \A y \in S : x <= y

\* sequences over S without repetition, of length <= n
RECURSIVE InjSeqs(_, _)
InjSeqs(S, n) ==
    IF n = 0 THEN {<<>>}
    ELSE LET shorter == InjSeqs(S, n - 1)
         IN  shorter \cup
             UNION {{Append(q, x) : x \in S \ Range(q)} : q \in shorter}

\* subsets of S with at most n elements
RECURSIVE SubsetsUpTo(_, _)
SubsetsUpTo(S, n) ==
    IF n = 0 THEN {{}}
    ELSE LET smaller == SubsetsUpTo(S, n - 1)
         IN  smaller \cup {A \cup {x} : A \in smaller, x \in S}

\* Python: sub in s, for strings
IsSubstr(sub, s) ==
    \E i \in 0..(Len(s) - Len(sub)) : SubSeq(s, i + 1, i + Len(sub)) = sub

\* Python: sorted(S) for a set of integers
RECURSIVE sorted(_)
sorted(S) ==
    IF S = {} THEN <<>> ELSE <<Min(S)>> \o sorted(S \ {Min(S)})

\* Python: seq[i] with a 1-based menu number k, i.e. seq[k - 1]; index -1 is
\* the last element.
PyIndex(seq, k) == IF k = 0 THEN seq[Len(seq)] ELSE seq[k]

\* ------------------------------------------- the content collaborator's data
\* rezka.seriesInfo: an insertion-ordered dict translator id -> data, here a
\* sequence in iteration order.  data['episodes'] is a dict season -> dict
\* episode -> title; only its keys are read, so it is a function from the
\* seasons present to the set of episode numbers present.
TranslatorName(tid) ==
    IF tid = 1 THEN <<"A">>
    ELSE IF tid % 2 = 0 THEN <<"A", "B">> ELSE <<"B", "C">>

EpisodesOf(tid, entries) ==
    [s \in {x[2] : x \in {y \in entries : y[1] = tid}} |->
        {x[3] : x \in {y \in entries : y[1] = tid /\ y[2] = s}}]

MkSeriesInfo(order, entries) ==
    [i \in DOMAIN order |->
        [id |-> order[i],
         translator_name |-> TranslatorName(order[i]),
         episodes |-> EpisodesOf(order[i], entries)]]

SeriesInfos ==
    UNION {{MkSeriesInfo(order, entries) :
               entries \in SubsetsUpTo(Range(order) \X Seasons \X Episodes, MaxEntries)} :
           order \in InjSeqs(TranslatorIds, MaxTranslators)}

\* rezka.translators (movies): translator id -> {name, premium}
MkTranslators(order) ==
    [i \in DOMAIN order |-> [id |-> order[i], name |-> TranslatorName(order[i])]]

\* ----------------------------------------------- process_series: the catalog
\* a slip of line 390: the season's set is replaced, not extended
UpdateSeasonsOverwrite(acc, episodes) ==
    [s \in DOMAIN acc \cup DOMAIN episodes |->
        IF s \in DOMAIN episodes THEN episodes[s] ELSE acc[s]]

\* lines 384-390: one translator's episodes merged into all_seasons
UpdateSeasons(acc, episodes) ==
    [s \in DOMAIN acc \cup DOMAIN episodes |->
        (IF s \in DOMAIN acc THEN acc[s] ELSE {}) \cup
        (IF s \in DOMAIN episodes THEN episodes[s] ELSE {})]

RECURSIVE CollectSeasons(_, _, _)
CollectSeasons(info, i, acc) ==
    IF i > Len(info) THEN acc
    ELSE CollectSeasons(info, i + 1, UpdateSeasons(acc, info[i].episodes))

\* lines 393-394: every season's set converted to a sorted list
SortSeasons(acc) == [s \in DOMAIN acc |-> sorted(acc[s])]

BuildAllSeasons(info) == SortSeasons(CollectSeasons(info, 1, <<>>))

\* line 397
SortedSeasons(all) == sorted(DOMAIN all)

\* -------------------------------------- process_series: the download targets
\* a slip of lines 429-430: the last episode of the season is left out
SeasonTargetsShort(season, season_episodes) ==
    [i \in 1..(Len(season_episodes) - 1) |-> <<season, season_episodes[i]>>]

\* lines 413-414, 429-430: the targets of one season
SeasonTargets(season, season_episodes) ==
    [i \in DOMAIN season_episodes |-> <<season, season_episodes[i]>>]

\* lines 412-414
RECURSIVE AllSeasonsTargets(_, _, _)
AllSeasonsTargets(all, seasons, i) ==
    IF i > Len(seasons) THEN <<>>
    ELSE SeasonTargets(seasons[i], all[seasons[i]]) \o
         AllSeasonsTargets(all, seasons, i + 1)

\* lines 410-434, for the menu numbers get_user_choice returned
\* (episode_choice is read only when season_choice # 0)
EpisodesToDownload(all, season_choice, episode_choice) ==
    LET seasons == SortedSeasons(all) IN
    IF season_choice = 0 THEN AllSeasonsTargets(all, seasons, 1)
    ELSE LET selected_season == seasons[season_choice]
             season_episodes == all[selected_season]
         IN  IF episode_choice = 0
             THEN SeasonTargets(selected_season, season_episodes)
             ELSE <<<<selected_season, season_episodes[episode_choice]>>>>

\* ------------------------------------- process_series: translator filtering
\* a slip of line 443: only the season is looked up
HasAllSeasons(translator_episodes, targets) ==
    \A i \in DOMAIN targets : targets[i][1] \in DOMAIN translator_episodes

\* lines 440-445
HasAllEpisodes(translator_episodes, targets) ==
    \A i \in DOMAIN targets :
        /\ targets[i][1] \in DOMAIN translator_episodes
        /\ targets[i][2] \in translator_episodes[targets[i][1]]

\* lines 437-448: the valid translators, in seriesInfo's iteration order
ValidTranslators(info, targets) ==
    LET F[i \in 0..Len(info)] ==
            IF i = 0 THEN <<>>
            ELSE IF HasAllEpisodes(info[i].episodes, targets)
                 THEN Append(F[i - 1], info[i])
                 ELSE F[i - 1]
    IN  F[Len(info)]

\* lines 455-460
FormatTranslators(valid) ==
    [i \in DOMAIN valid |-> [id |-> valid[i].id, name |-> valid[i].translator_name]]

\* --------------------------------------------------------- quality labels
Q360 == <<"3", "6", "0", "p">>
Q720 == <<"7", "2", "0", "p">>
Q1080 == <<"1", "0", "8", "0", "p">>
QualityLabels == {Q360, Q720, Q1080}
MaxQualities == 2     \* quality labels in one stream manifest

\* lines 246-253: quality_map, in the dict's insertion order
quality_map ==
    << <<<<"2", "1", "6", "0", "p">>, 5>>, <<<<"4", "K">>, 5>>,
       <<<<"1", "4", "4", "0", "p">>, 4>>, <<<<"2", "K">>, 4>>,
       <<Q1080, 3>>, <<<<"F", "H", "D">>, 3>>,
       <<Q720, 2>>, <<<<"H", "D">>, 2>>,
       <<<<"4", "8", "0", "p">>, 1>>, <<<<"S", "D">>, 1>>,
       <<Q360, 0>> >>

\* lines 255-258: the value of the first key contained in the label, else 0
get_quality_priority(quality) ==
    LET hits == {i \in DOMAIN quality_map : IsSubstr(quality_map[i][1], quality)}
    IN  IF hits = {} THEN 0 ELSE quality_map[Min(hits)][2]

\* Python: sorted(seq, key=get_quality_priority, reverse=True) -- stable:
\* each element is inserted after the elements whose key is not smaller
InsertByPriority(done, q) ==
    LET before == {i \in DOMAIN done :
                      get_quality_priority(done[i]) >= get_quality_priority(q)}
        k == IF before = {} THEN 0 ELSE CHOOSE i \in before : \A j \in before : j <= i
    IN  SubSeq(done, 1, k) \o <<q>> \o SubSeq(done, k + 1, Len(done))

RECURSIVE SortQualities(_, _, _)
SortQualities(qualities, i, done) ==
    IF i > Len(qualities) THEN done
    ELSE SortQualities(qualities, i + 1, InsertByPriority(done, qualities[i]))

sorted_qualities_of(qualities) == SortQualities(qualities, 1, <<>>)

\* ------------------------------------------------------------ console input
\* What the user may type at a numbered prompt.
MaxMenu == Cardinality(Seasons) + Cardinality(Episodes) + MaxTranslators + MaxQualities
ChoiceTokens == {"", "abc"} \cup {ToString(n) : n \in -1..(MaxMenu + 1)}

\* int(input(prompt)) raises ValueError unless the text is a number
ParsesInt(tok) == \E n \in -1..(MaxMenu + 1) : ToString(n) = tok
IntOf(tok) == CHOOSE n \in -1..(MaxMenu + 1) : ToString(n) = tok

\* lines 186-192: get_user_choice returns the number, or prints an error and
\* asks again
Accepts(tok, max_value) ==
    ParsesInt(tok) /\ 0 <= IntOf(tok) /\ IntOf(tok) <= max_value

\* --------------------------------------------------------------- selection
\* line 260, line 290: the default of the parameter auto_select; no caller
\* passes another value (lines 329, 339, 463, 475)
DefaultAutoSelect == TRUE

\* lines 273-277: the first translator whose name contains the preference
PreferredTranslators(translators, pref) ==
    {i \in DOMAIN translators : IsSubstr(pref, translators[i].name)}

\* lines 262-277 of select_translator, up to the prompt:
\* via is "error" (ValueError), "single", "preferred" or "prompt"
select_translator(translators, cfg, auto_select) ==
    IF Len(translators) = 0 THEN [via |-> "error", value |-> None]
    ELSE IF Len(translators) = 1 /\ auto_select
    THEN [via |-> "single", value |-> translators[1].id]
    ELSE IF cfg.preferred_translator # None
            /\ PreferredTranslators(translators, cfg.preferred_translator) # {}
    THEN [via |-> "preferred",
          value |-> translators[Min(PreferredTranslators(translators,
                                       cfg.preferred_translator))].id]
    ELSE [via |-> "prompt", value |-> None]

\* lines 292-306 of select_quality, up to the prompt
select_quality(qualities, cfg, auto_select) ==
    LET sorted_qualities == sorted_qualities_of(qualities) IN
    IF Len(qualities) = 0 THEN [via |-> "error", value |-> None]
    ELSE IF Len(sorted_qualities) = 1 /\ auto_select
    THEN [via |-> "single", value |-> sorted_qualities[1]]
    ELSE IF cfg.preferred_quality # None
            /\ cfg.preferred_quality \in Range(qualities)
    THEN [via |-> "preferred", value |-> cfg.preferred_quality]
    ELSE [via |-> "prompt", value |-> None]

\* ------------------------------------------------------------------- state
VARIABLES
    pc,                    \* where the main thread is
    config,                \* DownloadConfig (the fields the flow reads)
    stats,                 \* DownloadManager.stats
    rezka,                 \* the HdRezkaApi object of the current URL
    kind,                  \* content_type: "none", "movie" or "series"
    all_seasons,           \* process_series: season -> sorted episode list
    season_choice,         \* process_series: the answer to the season menu
    episode_choice,        \* process_series: the answer to the episode menu
    selected_season,       \* process_series: sorted_seasons[season_choice - 1]
    episodes_to_download,  \* process_series: list of (season, episode)
    valid_translators,     \* process_series: ids of valid_translators, in order
    translators,           \* select_translator's argument
    translator_id,
    qualities,             \* select_quality's argument
    selected_quality,
    picked,                \* how the last selection was made
    idx,                   \* batch loop: position in episodes_to_download
    successful_downloads,
    failed_downloads,      \* list of (season, episode, reason)
    okTargets,             \* targets whose download_file returned success
    success,               \* what process_movie / process_series returned
    lastError,             \* the last logger.error of the content processing
    nGetStream,            \* rezka.getStream calls for the current URL
    calls,                 \* download_file: the call each caller is in or was last in
    files,                 \* path -> the chunk lengths written since it was created
    dirs,                  \* whether the download directory exists
    nCalls,                \* download_file calls made
    download_lock,         \* DownloadManager.download_lock: its holder, or Unlocked
    ledger                 \* what the calls did, counted where they did it

catalog == <<all_seasons, season_choice, episode_choice, selected_season,
            episodes_to_download, valid_translators>>
selection == <<translators, translator_id, qualities, selected_quality, picked>>
batch == <<idx, successful_downloads, failed_downloads, okTargets>>
locals == <<catalog, selection, batch>>
outcome == <<success, lastError>>

dlvars == <<calls, files, dirs, nCalls, download_lock, ledger>>

vars == <<pc, config, stats, rezka, kind, locals, outcome, nGetStream, dlvars>>

\* the threads that may call download_file on the one DownloadManager
Callers == {1, 2}

\* lines 124-127: a caller that is not inside download_file
NoCall ==
    [pc |-> "idle", path |-> None, existed |-> FALSE, madeDir |-> FALSE,
     head |-> 0, get |-> 0, opened |-> FALSE, yielded |-> 0, pending |-> 0,
     loaded |-> 0, fault |-> None, result |-> None]

\* nothing done yet: transfers completed, chunk bytes written, calls returned
\* with success and with failure
ZeroLedger == [transferred |-> 0, bytes |-> 0, succeeded |-> 0, failed |-> 0]

\* line 102: Lock(), not held
Unlocked == 0

\* no file at all
NoFiles == [p \in {} |-> <<>>]

\* no download_file call is being followed
DlIdle ==
    /\ calls = [c \in Callers |-> NoCall]
    /\ files = NoFiles
    /\ dirs = FALSE
    /\ nCalls = 0
    /\ download_lock = Unlocked
    /\ ledger = ZeroLedger

\* lines 50-53: the configuration file may hold any value of these fields
Configs ==
    [preferred_quality : {None, Q720},
     preferred_translator : {None, <<"B">>},
     auto_select_single_option : BOOLEAN,
     auto_reload : BOOLEAN]

\* lines 103-108
ZeroStats ==
    [total_downloads |-> 0, successful_downloads |-> 0,
     failed_downloads |-> 0, total_bytes |-> 0]

NoRezka == [ok |-> FALSE, type |-> None, seriesInfo |-> <<>>, translators |-> <<>>]

NoPick == [what |-> None, via |-> None, tok |-> None, n |-> 0]

SeriesRezka(info) ==
    [ok |-> TRUE, type |-> "TVSeries", seriesInfo |-> info, translators |-> <<>>]

\* what HdRezkaApi(url) may come back as
Rezkas ==
    {NoRezka}
    \cup {SeriesRezka(info) : info \in SeriesInfos}
    \cup {[ok |-> TRUE, type |-> t, seriesInfo |-> <<>>, translators |-> MkTranslators(order)] :
             t \in {"Movie", None}, order \in InjSeqs(TranslatorIds, MaxTranslators)}

\* the locals of process_movie / process_series, as they are before a call
LocalsCleared ==
    /\ all_seasons = <<>>
    /\ season_choice = None
    /\ episode_choice = None
    /\ selected_season = 0
    /\ episodes_to_download = <<>>
    /\ valid_translators = <<>>
    /\ translators = <<>>
    /\ translator_id = None
    /\ qualities = <<>>
    /\ selected_quality = None
    /\ picked = NoPick
    /\ idx = 0
    /\ successful_downloads = 0
    /\ failed_downloads = <<>>
    /\ okTargets = {}

ClearLocals ==
    /\ all_seasons' = <<>>
    /\ season_choice' = None
    /\ episode_choice' = None
    /\ selected_season' = 0
    /\ episodes_to_download' = <<>>
    /\ valid_translators' = <<>>
    /\ translators' = <<>>
    /\ translator_id' = None
    /\ qualities' = <<>>
    /\ selected_quality' = None
    /\ picked' = NoPick
    /\ idx' = 0
    /\ successful_downloads' = 0
    /\ failed_downloads' = <<>>
    /\ okTargets' = {}

Init ==
    /\ pc = "start"
    /\ config \in Configs
    /\ stats = ZeroStats
    /\ rezka = NoRezka
    /\ kind = "none"
    /\ LocalsCleared
    /\ success = FALSE
    /\ lastError = None
    /\ nGetStream = 0
    /\ DlIdle

\* ---------------------------------------------------- the environment's side
CHUNK_SIZE == 8192

\* what rezka.getStream(...) may do: return nothing, raise, or return a stream
\* whose videos dict has the keys `keys` (in order), each with `urls` URLs
StreamResults ==
    {[tag |-> t, keys |-> <<>>, urls |-> 0] : t \in {"none", "raise"}}
    \cup {[tag |-> "stream", keys |-> qs, urls |-> n] :
              qs \in InjSeqs(QualityLabels, MaxQualities), n \in {0, 1}}

\* the response body as the lengths of the chunks iter_content yields
Bodies == {<<CHUNK_SIZE, 1>>}

\* what one download_file call meets: whether the path exists, how the
\* requests and the disk behave, and the chunks received before that
DlOutcomes ==
    [exists : BOOLEAN, net : {"ok", "head_error", "os_error"}, body : Bodies]

RECURSIVE SumSeq(_)
SumSeq(q) == IF q = <<>> THEN 0 ELSE Head(q) + SumSeq(Tail(q))

\* the messages of download_file (lines 130, 166, 170, 173) and of the batch
\* loop (lines 493, 510), in English
MsgExists == "file already exists"
MsgDone == "done"
MsgNetwork == "network error"
MsgError == "error"
MsgNoStream == "stream unavailable"
MsgException == "exception"

\* lines 124-176, one whole call in the main thread: the result and the
\* counters afterwards
download_file(st, dl) ==
    IF dl.exists
    THEN [ok |-> TRUE, message |-> MsgExists,
          stats |-> [st EXCEPT !.total_downloads = @ + 1]]
    ELSE IF dl.net = "ok"
    THEN [ok |-> TRUE, message |-> MsgDone,
          stats |-> [st EXCEPT !.total_bytes = @ + SumSeq(dl.body),
                               !.successful_downloads = @ + 1,
                               !.total_downloads = @ + 1]]
    ELSE [ok |-> FALSE,
          message |-> IF dl.net = "head_error" THEN MsgNetwork ELSE MsgError,
          stats |-> [st EXCEPT !.total_downloads = @ + 1]]

\* ------------------------------------------------------------------ main()
\* what the user may type at the top-level prompt (line 565)
MainTokens == {"1", "", "not a url", "https://rezka.ag/series/1.html"}

\* lines 577-578: urlparse finds a scheme and a network location
HasSchemeAndNetloc(tok) == tok = "https://rezka.ag/series/1.html"

\* lines 528-547
detect_content_type(r) ==
    IF r.type = "Movie" THEN "movie"
    ELSE IF r.type = "TVSeries" THEN "series"
    ELSE IF r.seriesInfo # <<>> THEN "series"
    ELSE IF r.translators # <<>> THEN "movie"
    ELSE "unknown"

\* lines 551-557: a fresh process image: the configuration is read from its
\* file and a new DownloadManager is made
MainStart ==
    /\ pc = "start"
    /\ pc' = "menu"
    /\ stats' = ZeroStats
    /\ rezka' = NoRezka
    /\ kind' = "none"
    /\ success' = FALSE
    /\ lastError' = None
    /\ nGetStream' = 0
    /\ UNCHANGED <<config, locals>>
    /\ UNCHANGED dlvars

\* lines 565-574, 577-581: the settings entry, an empty line, a malformed URL
MainMenuInput ==
    /\ pc = "menu"
    /\ \E tok \in MainTokens :
          /\ (tok = "1" \/ tok = "" \/ ~HasSchemeAndNetloc(tok))
          /\ pc' = IF tok = "1" THEN "settings" ELSE "menu"
    /\ UNCHANGED <<config, stats, rezka, kind, locals, outcome, nGetStream>>
    /\ UNCHANGED dlvars

\* lines 577-618: a URL: connect, detect the content type, enter the
\* processing function
MainUrl ==
    /\ pc = "menu"
    /\ \E tok \in MainTokens, r \in Rezkas :
          /\ tok # "1" /\ tok # "" /\ HasSchemeAndNetloc(tok)
          /\ rezka' = r
          /\ IF ~r.ok \/ detect_content_type(r) = "unknown"
             THEN /\ pc' = "continue_wait"
                  /\ kind' = "none"
             ELSE /\ kind' = detect_content_type(r)
                  /\ pc' = IF detect_content_type(r) = "movie"
                           THEN "movie_start" ELSE "series_start"
    /\ UNCHANGED <<config, stats, locals, outcome, nGetStream>>
    /\ UNCHANGED dlvars

\* lines 592-593, 600-601: Enter, and back to the menu
MainContinue ==
    /\ pc = "continue_wait"
    /\ pc' = "menu"
    /\ rezka' = NoRezka
    /\ UNCHANGED <<config, stats, kind, locals, outcome, nGetStream>>
    /\ UNCHANGED dlvars

\* lines 197-222: show_settings_menu, one answer to its prompt (the Enter
\* that option 3 waits for included)
SettingsChoice ==
    /\ pc = "settings"
    /\ \E tok \in ChoiceTokens :
          IF ~Accepts(tok, 3) THEN UNCHANGED <<pc, config>>
          ELSE IF IntOf(tok) = 1 THEN pc' = "menu" /\ UNCHANGED config
          ELSE IF IntOf(tok) = 2
          THEN /\ config' = [config EXCEPT !.auto_reload = ~@]
               /\ UNCHANGED pc
          ELSE UNCHANGED <<pc, config>>
    /\ UNCHANGED <<stats, rezka, kind, locals, outcome, nGetStream>>
    /\ UNCHANGED dlvars

\* a slip of line 638: continue instead of auto_reload_functionality and break
MainFinishContinue ==
    /\ pc = "finish"
    /\ pc' = "menu"
    /\ UNCHANGED <<config, stats, rezka, kind, locals, outcome, nGetStream>>
    /\ UNCHANGED dlvars

\* lines 620-638: the statistics, save_config, auto_reload_functionality
\* (lines 224-235: os.execl starts the program anew, else a last prompt) and
\* the break out of the loop
MainFinish ==
    /\ pc = "finish"
    /\ pc' = IF config.auto_reload THEN "start" ELSE "exit_wait"
    /\ UNCHANGED <<config, stats, rezka, kind, locals, outcome, nGetStream>>
    /\ UNCHANGED dlvars

\* line 235: Enter; main returns and the process ends
MainExit ==
    /\ pc = "exit_wait"
    /\ pc' = "exited"
    /\ UNCHANGED <<config, stats, rezka, kind, locals, outcome, nGetStream>>
    /\ UNCHANGED dlvars

PromptPcs ==
    {"menu", "continue_wait", "settings", "season_prompt", "episode_prompt",
     "translator_prompt", "quality_prompt", "exit_wait"}

\* lines 193-195, 640-642: Ctrl-C at a prompt ends the process with status 0
KeyboardInterrupt ==
    /\ pc \in PromptPcs
    /\ pc' = "interrupted"
    /\ rezka' = NoRezka
    /\ ClearLocals
    /\ UNCHANGED <<config, stats, kind, outcome, nGetStream>>
    /\ UNCHANGED dlvars

\* -------------------------------------------------------- process_series()
\* return from process_movie / process_series: the locals are gone
Return(ok, err) ==
    /\ pc' = "finish"
    /\ success' = ok
    /\ lastError' = err
    /\ rezka' = NoRezka
    /\ ClearLocals

\* lines 377-405: no seriesInfo is an error; else the catalog is built and the
\* season menu is shown
SeriesStart ==
    /\ pc = "series_start"
    /\ IF rezka.seriesInfo = <<>>
       THEN Return(FALSE, "no series info")
       ELSE /\ all_seasons' = BuildAllSeasons(rezka.seriesInfo)
            /\ pc' = "season_prompt"
            /\ UNCHANGED <<rezka, season_choice, episode_choice, selected_season,
                           episodes_to_download, valid_translators, selection,
                           batch, outcome>>
    /\ UNCHANGED <<config, stats, kind, nGetStream>>
    /\ UNCHANGED dlvars

\* lines 405-417: one answer to the season prompt
SeasonChoice ==
    /\ pc = "season_prompt"
    /\ \E tok \in ChoiceTokens :
          IF ~Accepts(tok, Len(SortedSeasons(all_seasons)))
          THEN UNCHANGED <<pc, season_choice, selected_season, episodes_to_download>>
          ELSE /\ season_choice' = IntOf(tok)
               /\ IF IntOf(tok) = 0
                  THEN /\ episodes_to_download' =
                              EpisodesToDownload(all_seasons, IntOf(tok), None)
                       /\ pc' = "filter"
                       /\ UNCHANGED selected_season
                  ELSE /\ selected_season' = SortedSeasons(all_seasons)[IntOf(tok)]
                       /\ pc' = "episode_prompt"
                       /\ UNCHANGED episodes_to_download
    /\ UNCHANGED <<config, stats, rezka, kind, all_seasons, episode_choice,
                   valid_translators, selection, batch, outcome, nGetStream>>
    /\ UNCHANGED dlvars

\* lines 418-434: one answer to the episode prompt
EpisodeChoice ==
    /\ pc = "episode_prompt"
    /\ \E tok \in ChoiceTokens :
          IF ~Accepts(tok, Len(all_seasons[selected_season]))
          THEN UNCHANGED <<pc, episode_choice, episodes_to_download>>
          ELSE /\ episode_choice' = IntOf(tok)
               /\ episodes_to_download' =
                      EpisodesToDownload(all_seasons, season_choice, IntOf(tok))
               /\ pc' = "filter"
    /\ UNCHANGED <<config, stats, rezka, kind, all_seasons, season_choice,
                   selected_season, valid_translators, selection, batch,
                   outcome, nGetStream>>
    /\ UNCHANGED dlvars

\* a slip of lines 450-463: no check for an empty result, and the unfiltered
\* translators go to select_translator
FilterTranslatorsNoAbort ==
    /\ pc = "filter"
    /\ LET valid == ValidTranslators(rezka.seriesInfo, episodes_to_download) IN
       /\ valid_translators' = [i \in DOMAIN valid |-> valid[i].id]
       /\ translators' = FormatTranslators(rezka.seriesInfo)
       /\ pc' = "select_translator"
       /\ all_seasons' = <<>>
       /\ season_choice' = None
       /\ episode_choice' = None
       /\ selected_season' = 0
       /\ UNCHANGED <<rezka, episodes_to_download, translator_id, qualities,
                      selected_quality, picked, batch, outcome>>
    /\ UNCHANGED <<config, stats, kind, nGetStream>>
    /\ UNCHANGED dlvars

\* lines 436-460: the valid translators; none is an error.  The catalog and
\* the menu answers are not read after this point.
FilterTranslators ==
    /\ pc = "filter"
    /\ LET valid == ValidTranslators(rezka.seriesInfo, episodes_to_download) IN
       IF valid = <<>>
       THEN Return(FALSE, "no translators")
       ELSE /\ valid_translators' = [i \in DOMAIN valid |-> valid[i].id]
            /\ translators' = FormatTranslators(valid)
            /\ pc' = "select_translator"
            /\ all_seasons' = <<>>
            /\ season_choice' = None
            /\ episode_choice' = None
            /\ selected_season' = 0
            /\ UNCHANGED <<rezka, episodes_to_download, translator_id, qualities,
                           selected_quality, picked, batch, outcome>>
    /\ UNCHANGED <<config, stats, kind, nGetStream>>
    /\ UNCHANGED dlvars

\* lines 465-475: the first target's stream gives the quality list (with no
\* target, line 466 is an IndexError before the call)
TestStream ==
    /\ pc = "test_stream"
    /\ nGetStream' = IF episodes_to_download = <<>> THEN nGetStream ELSE nGetStream + 1
    /\ \E st \in StreamResults :
          IF episodes_to_download = <<>> \/ st.tag = "raise"
          THEN Return(FALSE, "exception")
          ELSE IF st.tag = "none"
          THEN Return(FALSE, "no test stream")
          ELSE /\ qualities' = st.keys
               /\ pc' = "select_quality"
               /\ UNCHANGED <<rezka, catalog, translators, translator_id,
                              selected_quality, picked, batch, outcome>>
    /\ UNCHANGED <<config, stats, kind>>
    /\ UNCHANGED dlvars

\* lines 477-486: the download folder is made (an OSError goes to line 524) and
\* the batch starts.  The quality list is not read after this point.
SeriesMkdir ==
    /\ pc = "mkdir"
    /\ \E made \in BOOLEAN :
          IF ~made THEN Return(FALSE, "exception")
          ELSE /\ pc' = "batch"
               /\ idx' = 1
               /\ successful_downloads' = 0
               /\ failed_downloads' = <<>>
               /\ qualities' = <<>>
               /\ picked' = NoPick
               /\ UNCHANGED <<rezka, catalog, translators, translator_id,
                              selected_quality, okTargets, outcome>>
    /\ UNCHANGED <<config, stats, kind, nGetStream>>
    /\ UNCHANGED dlvars

\* a slip of lines 509-510: the exception is swallowed
RecordFailureUnlessRaised(failed, season, episode, reason) ==
    IF reason = MsgException THEN failed
    ELSE Append(failed, <<season, episode, reason>>)

\* lines 493, 507, 510: failed_downloads.append((season, episode, reason))
RecordFailure(failed, season, episode, reason) ==
    Append(failed, <<season, episode, reason>>)

\* lines 488-510: one iteration of the batch loop
BatchStep ==
    /\ pc = "batch"
    /\ LET season == episodes_to_download[idx][1]
           episode == episodes_to_download[idx][2]
       IN  \E st \in StreamResults :
              IF st.tag = "raise"
              THEN /\ failed_downloads' =
                          RecordFailure(failed_downloads, season, episode, MsgException)
                   /\ UNCHANGED <<successful_downloads, okTargets, stats>>
              ELSE IF st.tag = "none" \/ selected_quality \notin Range(st.keys)
              THEN /\ failed_downloads' =
                          RecordFailure(failed_downloads, season, episode, MsgNoStream)
                   /\ UNCHANGED <<successful_downloads, okTargets, stats>>
              ELSE IF st.urls = 0
              THEN /\ failed_downloads' =
                          RecordFailure(failed_downloads, season, episode, MsgException)
                   /\ UNCHANGED <<successful_downloads, okTargets, stats>>
              ELSE \E dl \in DlOutcomes :
                   LET r == download_file(stats, dl) IN
                   /\ stats' = r.stats
                   /\ IF r.ok
                      THEN /\ successful_downloads' = successful_downloads + 1
                           /\ okTargets' = okTargets \cup {<<season, episode>>}
                           /\ UNCHANGED failed_downloads
                      ELSE /\ failed_downloads' =
                                  RecordFailure(failed_downloads, season, episode, r.message)
                           /\ UNCHANGED <<successful_downloads, okTargets>>
    /\ nGetStream' = nGetStream + 1
    /\ idx' = idx + 1
    /\ pc' = IF idx = Len(episodes_to_download) THEN "report" ELSE "batch"
    /\ UNCHANGED <<config, rezka, kind, catalog, selection, outcome>>
    /\ UNCHANGED dlvars

\* lines 512-522: the report, and the return value
Report ==
    /\ pc = "report"
    /\ Return(successful_downloads > 0, lastError)
    /\ UNCHANGED <<config, stats, kind, nGetStream>>
    /\ UNCHANGED dlvars

\* ------------------------------------- select_translator(), select_quality()
AfterTranslator == IF kind = "movie" THEN "movie_stream" ELSE "test_stream"
AfterQuality == IF kind = "movie" THEN "movie_download" ELSE "mkdir"

\* lines 329, 463 with lines 260-277: the call, up to the prompt; a ValueError
\* goes to the caller's except clause (lines 370, 524).  The data of rezka
\* is not read after this point.
SelectTranslator ==
    /\ pc = "select_translator"
    /\ LET r == select_translator(translators, config, DefaultAutoSelect) IN
       IF r.via = "error" THEN Return(FALSE, "no translators available")
       ELSE /\ rezka' = NoRezka
            /\ IF r.via = "prompt"
               THEN /\ pc' = "translator_prompt"
                    /\ UNCHANGED <<translators, translator_id, picked>>
               ELSE /\ translator_id' = r.value
                    /\ picked' = [what |-> "translator", via |-> r.via,
                                  tok |-> None, n |-> Len(translators)]
                    /\ translators' = <<>>
                    /\ pc' = AfterTranslator
            /\ UNCHANGED <<catalog, qualities, selected_quality, batch, outcome>>
    /\ UNCHANGED <<config, stats, kind, nGetStream>>
    /\ UNCHANGED dlvars

\* lines 279-288 with get_user_choice: one answer to the translator prompt
TranslatorChoice ==
    /\ pc = "translator_prompt"
    /\ \E tok \in ChoiceTokens :
          IF ~Accepts(tok, Len(translators))
          THEN UNCHANGED <<pc, translators, translator_id, picked>>
          ELSE /\ translator_id' = PyIndex(translators, IntOf(tok)).id
               /\ picked' = [what |-> "translator", via |-> "prompt", tok |-> tok,
                             n |-> Len(translators)]
               /\ translators' = <<>>
               /\ pc' = AfterTranslator
    /\ UNCHANGED <<config, stats, rezka, kind, catalog, qualities,
                   selected_quality, batch, outcome, nGetStream>>
    /\ UNCHANGED dlvars

\* lines 339, 475 with lines 290-306: the call, up to the prompt
SelectQuality ==
    /\ pc = "select_quality"
    /\ LET r == select_quality(qualities, config, DefaultAutoSelect) IN
       IF r.via = "error" THEN Return(FALSE, "no qualities")
       ELSE /\ IF r.via = "prompt"
               THEN /\ pc' = "quality_prompt"
                    /\ UNCHANGED <<selected_quality, picked>>
               ELSE /\ selected_quality' = r.value
                    /\ picked' = [what |-> "quality", via |-> r.via,
                                  tok |-> None, n |-> Len(qualities)]
                    /\ pc' = AfterQuality
            /\ UNCHANGED <<rezka, catalog, translators, translator_id,
                           qualities, batch, outcome>>
    /\ UNCHANGED <<config, stats, kind, nGetStream>>
    /\ UNCHANGED dlvars

\* lines 308-314 with get_user_choice: one answer to the quality prompt
QualityChoice ==
    /\ pc = "quality_prompt"
    /\ \E tok \in ChoiceTokens :
          IF ~Accepts(tok, Len(qualities))
          THEN UNCHANGED <<pc, selected_quality, picked>>
          ELSE /\ selected_quality' =
                      PyIndex(sorted_qualities_of(qualities), IntOf(tok))
               /\ picked' = [what |-> "quality", via |-> "prompt", tok |-> tok,
                             n |-> Len(qualities)]
               /\ pc' = AfterQuality
    /\ UNCHANGED <<config, stats, rezka, kind, catalog, translators,
                   translator_id, qualities, batch, outcome, nGetStream>>
    /\ UNCHANGED dlvars

\* --------------------------------------------------------- process_movie()
\* lines 319-329
MovieStart ==
    /\ pc = "movie_start"
    /\ IF rezka.translators = <<>>
       THEN Return(FALSE, "no translations")
       ELSE /\ translators' = rezka.translators
            /\ pc' = "select_translator"
            /\ UNCHANGED <<rezka, catalog, translator_id, qualities,
                           selected_quality, picked, batch, outcome>>
    /\ UNCHANGED <<config, stats, kind, nGetStream>>
    /\ UNCHANGED dlvars

\* lines 331-339
MovieStream ==
    /\ pc = "movie_stream"
    /\ nGetStream' = nGetStream + 1
    /\ \E st \in StreamResults :
          IF st.tag = "raise" THEN Return(FALSE, "exception")
          ELSE IF st.tag = "none" THEN Return(FALSE, "no movie stream")
          ELSE /\ qualities' = st.keys
               /\ pc' = "select_quality"
               /\ UNCHANGED <<rezka, catalog, translators, translator_id,
                              selected_quality, picked, batch, outcome>>
    /\ UNCHANGED <<config, stats, kind>>
    /\ UNCHANGED dlvars

\* lines 341-368: the URL (an empty URL list is an IndexError), the folder
\* (mkdir may fail) and the download
MovieDownload ==
    /\ pc = "movie_download"
    /\ \E has_url \in BOOLEAN, made \in BOOLEAN :
          IF selected_quality \notin Range(qualities)
          THEN Return(FALSE, "quality unavailable") /\ UNCHANGED stats
          ELSE IF ~has_url \/ ~made
          THEN Return(FALSE, "exception") /\ UNCHANGED stats
          ELSE \E dl \in DlOutcomes :
               LET r == download_file(stats, dl) IN
               /\ stats' = r.stats
               /\ Return(r.ok, IF r.ok THEN lastError ELSE "movie download failed")
    /\ UNCHANGED <<config, kind, nGetStream>>
    /\ UNCHANGED dlvars

\* ------------------------------------------ DownloadManager.download_file()
\* line 37; line 114: the session's adapter retries a request up to this often
MAX_RETRIES == 3

\* the destination paths of the calls
DlPaths == {"Videos/s01e01.mp4", "Videos/s01e02.mp4"}

\* what iter_content may yield: an empty keep-alive chunk or a full chunk
\* (lines 153-154)
ChunkLens == {0, CHUNK_SIZE}

\* lines 45-53: DownloadConfig()
DefaultConfig ==
    [preferred_quality |-> None, preferred_translator |-> None,
     auto_select_single_option |-> TRUE, auto_reload |-> FALSE]

\* lines 99-108: a new DownloadManager over a disk that may hold earlier
\* downloads
InitDL ==
    /\ pc = "download_manager"
    /\ config = DefaultConfig
    /\ stats = ZeroStats
    /\ rezka = NoRezka
    /\ kind = "none"
    /\ LocalsCleared
    /\ success = FALSE
    /\ lastError = None
    /\ nGetStream = 0
    /\ calls = [c \in Callers |-> NoCall]
    /\ files \in {[p \in P |-> <<CHUNK_SIZE>>] : P \in SUBSET DlPaths}
    /\ dirs \in {d \in BOOLEAN : files # NoFiles => d}
    /\ nCalls = 0
    /\ download_lock = Unlocked
    /\ ledger = ZeroLedger

mainvars == <<pc, config, rezka, kind, locals, outcome, nGetStream>>

\* a slip of lines 167-173: the exception is caught and success is returned
DlExceptPass(c, fault, message) ==
    calls' = [calls EXCEPT ![c].fault = fault,
                           ![c].result = [ok |-> TRUE, message |-> MsgDone],
                           ![c].pc = "finally"]

\* lines 167-173: the exception is caught, the failure result is fixed and the
\* finally block is next
DlExcept(c, fault, message) ==
    calls' = [calls EXCEPT ![c].fault = fault,
                           ![c].result = [ok |-> FALSE, message |-> message],
                           ![c].pc = "finally"]

\* line 124: a caller enters download_file
DlCall(c) ==
    /\ pc = "download_manager"
    /\ calls[c].pc = "idle"
    /\ nCalls < MaxCalls
    /\ \E p \in DlPaths :
          calls' = [calls EXCEPT ![c] = [NoCall EXCEPT !.pc = "exists", !.path = p]]
    /\ nCalls' = nCalls + 1
    /\ UNCHANGED <<stats, files, dirs, download_lock, ledger, mainvars>>

\* a slip of lines 128-130: the existence of the file is looked up and ignored
DlExistsNoReturn(c) ==
    /\ calls[c].pc = "exists"
    /\ calls' = [calls EXCEPT ![c].existed = (calls[c].path \in DOMAIN files),
                              ![c].pc = "makedirs"]
    /\ UNCHANGED <<stats, files, dirs, nCalls, download_lock, ledger, mainvars>>

\* lines 128-130: if os.path.exists(filepath): return True, ...
DlExists(c) ==
    /\ calls[c].pc = "exists"
    /\ LET exists == calls[c].path \in DOMAIN files IN
       IF exists
       THEN calls' = [calls EXCEPT ![c].existed = exists,
                                   ![c].result = [ok |-> TRUE, message |-> MsgExists],
                                   ![c].pc = "finally"]
       ELSE calls' = [calls EXCEPT ![c].existed = exists, ![c].pc = "makedirs"]
    /\ UNCHANGED <<stats, files, dirs, nCalls, download_lock, ledger, mainvars>>

\* line 133: os.makedirs(dirname, exist_ok=True), which may raise OSError
DlMakedirs(c) ==
    /\ calls[c].pc = "makedirs"
    /\ \E made \in BOOLEAN :
          IF made \/ dirs
          THEN /\ dirs' = TRUE
               /\ calls' = [calls EXCEPT ![c].madeDir = ~dirs, ![c].pc = "head"]
          ELSE /\ DlExcept(c, "os_error", MsgError)
               /\ UNCHANGED dirs
    /\ UNCHANGED <<stats, files, nCalls, download_lock, ledger, mainvars>>

\* lines 136-139: HEAD, sent once and again by the adapter up to MAX_RETRIES
\* times; raise_for_status; int(content-length)
DlHead(c) ==
    /\ calls[c].pc = "head"
    /\ \E sent \in 1..(1 + MAX_RETRIES), r \in {"ok", "request_error", "bad_length"} :
          LET sending == [calls EXCEPT ![c].head = sent] IN
          IF r = "ok"
          THEN calls' = [sending EXCEPT ![c].pc = "get"]
          ELSE calls' = [sending EXCEPT
                   ![c].fault = r,
                   ![c].result = [ok |-> FALSE,
                                  message |-> IF r = "request_error"
                                              THEN MsgNetwork ELSE MsgError],
                   ![c].pc = "finally"]
    /\ UNCHANGED <<stats, files, dirs, nCalls, download_lock, ledger, mainvars>>

\* lines 142-143: GET with stream=True; raise_for_status
DlGet(c) ==
    /\ calls[c].pc = "get"
    /\ \E sent \in 1..(1 + MAX_RETRIES), r \in {"ok", "request_error"} :
          IF r = "ok"
          THEN calls' = [calls EXCEPT ![c].get = sent, ![c].pc = "open"]
          ELSE calls' = [calls EXCEPT
                   ![c].get = sent,
                   ![c].fault = r,
                   ![c].result = [ok |-> FALSE, message |-> MsgNetwork],
                   ![c].pc = "finally"]
    /\ UNCHANGED <<stats, files, dirs, nCalls, download_lock, ledger, mainvars>>

\* line 145: open(filepath, 'wb') creates the file or truncates it; no request
\* is sent from here on, and the count of those sent is dropped
DlOpen(c) ==
    /\ calls[c].pc = "open"
    /\ \E opened \in BOOLEAN :
          IF opened
          THEN /\ files' = [p \in DOMAIN files \cup {calls[c].path} |->
                               IF p = calls[c].path THEN <<>> ELSE files[p]]
               /\ calls' = [calls EXCEPT ![c].opened = TRUE, ![c].head = 0,
                                         ![c].get = 0, ![c].pc = "chunk"]
          ELSE /\ DlExcept(c, "os_error", MsgError)
               /\ UNCHANGED files
    /\ UNCHANGED <<stats, dirs, nCalls, download_lock, ledger, mainvars>>

\* lines 153-157: the next chunk of the body, or its end, or a broken
\* transfer; a chunk that is not empty is written (the write may fail)
DlChunk(c) ==
    /\ calls[c].pc = "chunk"
    /\ \/ /\ calls' = [calls EXCEPT ![c].pc = "succeed"]
          /\ ledger' = [ledger EXCEPT !.transferred = @ + 1]
          /\ UNCHANGED files
       \/ /\ DlExcept(c, "request_error", MsgNetwork)
          /\ UNCHANGED <<files, ledger>>
       \/ /\ calls[c].yielded < MaxChunks
          /\ \E n \in ChunkLens, written \in BOOLEAN :
                IF n = 0
                THEN /\ calls' = [calls EXCEPT ![c].yielded = @ + 1]
                     /\ UNCHANGED <<files, ledger>>
                ELSE IF written
                THEN /\ files' = [files EXCEPT ![calls[c].path] = Append(@, n)]
                     /\ ledger' = [ledger EXCEPT !.bytes = @ + n]
                     /\ calls' = [calls EXCEPT ![c].yielded = @ + 1,
                                               ![c].pending = n,
                                               ![c].pc = "count"]
                ELSE /\ DlExcept(c, "write_error", MsgError)
                     /\ UNCHANGED <<files, ledger>>
    /\ UNCHANGED <<stats, dirs, nCalls, download_lock, mainvars>>

\* a slip of lines 159, 162, 175: the counters are updated without the lock
AcquirableAlways(c) == TRUE

\* lines 159, 162, 175: with self.download_lock: the lock can be taken
Acquirable(c) == download_lock = Unlocked

\* lines 159-160: with self.download_lock: stats['total_bytes'] += len(chunk),
\* up to the read of the counter
DlCount(c) ==
    /\ calls[c].pc = "count"
    /\ Acquirable(c)
    /\ download_lock' = c
    /\ calls' = [calls EXCEPT ![c].loaded = stats.total_bytes,
                              ![c].pc = "count_store"]
    /\ UNCHANGED <<stats, files, dirs, nCalls, ledger, mainvars>>

\* line 160: the sum is stored and the lock released
DlCountStore(c) ==
    /\ calls[c].pc = "count_store"
    /\ stats' = [stats EXCEPT !.total_bytes = calls[c].loaded + calls[c].pending]
    /\ download_lock' = Unlocked
    /\ calls' = [calls EXCEPT ![c].pending = 0, ![c].loaded = 0, ![c].pc = "chunk"]
    /\ UNCHANGED <<files, dirs, nCalls, ledger, mainvars>>

\* lines 162-163: with self.download_lock: stats['successful_downloads'] += 1,
\* up to the read of the counter
DlSucceed(c) ==
    /\ calls[c].pc = "succeed"
    /\ Acquirable(c)
    /\ download_lock' = c
    /\ calls' = [calls EXCEPT ![c].loaded = stats.successful_downloads,
                              ![c].pc = "succeed_store"]
    /\ UNCHANGED <<stats, files, dirs, nCalls, ledger, mainvars>>

\* lines 163-166: the sum is stored and the lock released; return True, ...
DlSucceedStore(c) ==
    /\ calls[c].pc = "succeed_store"
    /\ stats' = [stats EXCEPT !.successful_downloads = calls[c].loaded + 1]
    /\ download_lock' = Unlocked
    /\ calls' = [calls EXCEPT ![c].result = [ok |-> TRUE, message |-> MsgDone],
                              ![c].loaded = 0,
                              ![c].pc = "finally"]
    /\ UNCHANGED <<files, dirs, nCalls, ledger, mainvars>>

\* lines 174-176: finally: with self.download_lock: stats['total_downloads'] += 1,
\* up to the read of the counter
DlFinally(c) ==
    /\ calls[c].pc = "finally"
    /\ Acquirable(c)
    /\ download_lock' = c
    /\ calls' = [calls EXCEPT ![c].loaded = stats.total_downloads,
                              ![c].pc = "finally_store"]
    /\ UNCHANGED <<stats, files, dirs, nCalls, ledger, mainvars>>

\* line 176: the sum is stored and the lock released; the call returns its
\* result
DlFinallyStore(c) ==
    /\ calls[c].pc = "finally_store"
    /\ stats' = [stats EXCEPT !.total_downloads = calls[c].loaded + 1]
    /\ download_lock' = Unlocked
    /\ calls' = [calls EXCEPT ![c] = [NoCall EXCEPT !.path = calls[c].path,
                                                    !.existed = calls[c].existed,
                                                    !.fault = calls[c].fault,
                                                    !.result = calls[c].result]]
    /\ ledger' = IF calls[c].result.ok
                 THEN [ledger EXCEPT !.succeeded = @ + 1]
                 ELSE [ledger EXCEPT !.failed = @ + 1]
    /\ UNCHANGED <<files, dirs, nCalls, mainvars>>

NextDL ==
    \E c \in Callers :
        \/ DlCall(c)
        \/ DlExists(c)
        \/ DlMakedirs(c)
        \/ DlHead(c)
        \/ DlGet(c)
        \/ DlOpen(c)
        \/ DlChunk(c)
        \/ DlCount(c)
        \/ DlCountStore(c)
        \/ DlSucceed(c)
        \/ DlSucceedStore(c)
        \/ DlFinally(c)
        \/ DlFinallyStore(c)

SpecDL == InitDL /\ [][NextDL]_vars

\* ------------------------------------------------- select_quality() alone
\* the labels of lines 246-253 and one the table does not know
Q240 == <<"2", "4", "0", "p">>
RankedLabels == {quality_map[i][1] : i \in DOMAIN quality_map} \cup {Q240}

\* lines 339, 475: select_quality is entered with any list of distinct labels
\* under any configuration
InitQ ==
    /\ pc = "select_quality"
    /\ config \in Configs
    /\ stats = ZeroStats
    /\ rezka = NoRezka
    /\ kind \in {"movie", "series"}
    /\ all_seasons = <<>>
    /\ season_choice = None
    /\ episode_choice = None
    /\ selected_season = 0
    /\ episodes_to_download = <<>>
    /\ valid_translators = <<>>
    /\ translators = <<>>
    /\ translator_id = None
    /\ qualities \in InjSeqs(RankedLabels, MaxShown)
    /\ selected_quality = None
    /\ picked = NoPick
    /\ idx = 0
    /\ successful_downloads = 0
    /\ failed_downloads = <<>>
    /\ okTargets = {}
    /\ success = FALSE
    /\ lastError = None
    /\ nGetStream = 0
    /\ DlIdle

NextQ ==
    \/ SelectQuality
    \/ QualityChoice

SpecQ == InitQ /\ [][NextQ]_vars

\* ------------------------------------------------------------ specification
Next ==
    \/ MainStart
    \/ MainMenuInput
    \/ MainUrl
    \/ MainContinue
    \/ SettingsChoice
    \/ MainFinish
    \/ MainExit
    \/ KeyboardInterrupt
    \/ SeriesStart
    \/ SeasonChoice
    \/ EpisodeChoice
    \/ FilterTranslators
    \/ SelectTranslator
    \/ TranslatorChoice
    \/ TestStream
    \/ SelectQuality
    \/ QualityChoice
    \/ SeriesMkdir
    \/ BatchStep
    \/ Report
    \/ MovieStart
    \/ MovieStream
    \/ MovieDownload

Spec == Init /\ [][Next]_vars

\* =================================================================== claims
\* the (season, episode) pairs a translator's data holds
Covered(data) ==
    UNION {{<<s, e>> : e \in data.episodes[s]} : s \in DOMAIN data.episodes}

\* the (season, episode) pairs of a catalog
CatalogPairs(all) == UNION {{<<s, e>> : e \in Range(all[s])} : s \in DOMAIN all}

StrictlyAscending(q) == \A i, j \in DOMAIN q : i < j => q[i] < q[j]

\* ascending season, then ascending episode
PairsAscending(q) ==
    \A i, j \in DOMAIN q :
        i < j => \/ q[i][1] < q[j][1]
                 \/ q[i][1] = q[j][1] /\ q[i][2] < q[j][2]

PositionIn(info, tid) == CHOOSE i \in DOMAIN info : info[i].id = tid

\* C3: a translator is a candidate iff its map holds the season and the
\* episode of every target, and the candidates keep seriesInfo's iteration
\* order.
C3_FilterExact ==
    (pc = "select_translator" /\ kind = "series") =>
        /\ \A i \in DOMAIN rezka.seriesInfo :
              (rezka.seriesInfo[i].id \in Range(valid_translators))
                  <=> (Range(episodes_to_download) \subseteq Covered(rezka.seriesInfo[i]))
        /\ \A a, b \in DOMAIN valid_translators :
              a < b => PositionIn(rezka.seriesInfo, valid_translators[a])
                          < PositionIn(rezka.seriesInfo, valid_translators[b])

\* C3 happens: of two translators that both have the target's season, only
\* the second has its episode
C3_Witness ==
    /\ pc = "select_translator" /\ kind = "series"
    /\ Len(rezka.seriesInfo) = 2
    /\ Len(episodes_to_download) = 1
    /\ episodes_to_download[1][1] \in DOMAIN rezka.seriesInfo[1].episodes
    /\ valid_translators = <<rezka.seriesInfo[2].id>>

\* C4: every season found under some translator has a strictly ascending
\* episode list whose elements are the union of that season's episodes over
\* all translators; no other season is in the catalog.
C4_CatalogSortedUnion ==
    pc \in {"season_prompt", "episode_prompt", "filter"} =>
        /\ DOMAIN all_seasons =
              UNION {DOMAIN rezka.seriesInfo[i].episodes : i \in DOMAIN rezka.seriesInfo}
        /\ \A s \in DOMAIN all_seasons :
              /\ StrictlyAscending(all_seasons[s])
              /\ Range(all_seasons[s]) =
                    UNION {rezka.seriesInfo[i].episodes[s] :
                              i \in {k \in DOMAIN rezka.seriesInfo :
                                        s \in DOMAIN rezka.seriesInfo[k].episodes}}

\* C4 happens: the first translator has the later episode of a season, the
\* second the earlier one
C4_Witness ==
    /\ pc = "season_prompt"
    /\ Len(rezka.seriesInfo) = 2
    /\ \E s \in DOMAIN all_seasons :
          /\ s \in DOMAIN rezka.seriesInfo[1].episodes
          /\ s \in DOMAIN rezka.seriesInfo[2].episodes
          /\ rezka.seriesInfo[1].episodes[s] = {2}
          /\ rezka.seriesInfo[2].episodes[s] = {1}
          /\ all_seasons[s] = <<1, 2>>

\* C5: the target list is the catalog's pairs inside the chosen scope, each
\* once, in ascending season then episode order; one chosen episode gives the
\* one-element list of that episode.
C5_TargetsAreScope ==
    pc = "filter" =>
        LET seasons == SortedSeasons(all_seasons) IN
        IF season_choice = 0
        THEN /\ Range(episodes_to_download) = CatalogPairs(all_seasons)
             /\ PairsAscending(episodes_to_download)
        ELSE IF episode_choice = 0
        THEN /\ Range(episodes_to_download) =
                   {p \in CatalogPairs(all_seasons) : p[1] = seasons[season_choice]}
             /\ PairsAscending(episodes_to_download)
        ELSE episodes_to_download =
                 << <<seasons[season_choice],
                      all_seasons[seasons[season_choice]][episode_choice]>> >>

\* C5 happens: all seasons of a two-season catalog, in season order
C5_Witness ==
    /\ pc = "filter"
    /\ season_choice = 0
    /\ episodes_to_download = << <<1, 2>>, <<2, 1>> >>

\* C1 (as claimed): a pass that ends with a failed target is followed by a
\* retry-or-stop prompt, so process_series does not return from the report.
C1_RetryOfferedAfterFailures ==
    [][(pc = "report" /\ Len(failed_downloads) > 0) => pc' # "finish"]_vars

\* no translator holds every target
NoCandidate ==
    \A i \in DOMAIN rezka.seriesInfo :
        ~(Range(episodes_to_download) \subseteq Covered(rezka.seriesInfo[i]))

\* C2: with no translator covering every target process_series returns
\* failure without a getStream call, a quality selection or a download_file
\* call; every step that makes one of these has a candidate translator.
C2_AbortBeforeIO ==
    [][/\ (/\ kind = "series"
           /\ \/ nGetStream' > nGetStream
              \/ stats'.total_downloads > stats.total_downloads
              \/ selected_quality = None /\ selected_quality' # None)
          => valid_translators # <<>>
       /\ (pc = "filter" /\ NoCandidate)
          => /\ pc' = "finish"
             /\ success' = FALSE
             /\ nGetStream' = 0
             /\ stats' = ZeroStats
             /\ selected_quality' = None]_vars

\* C2 happens: process_series has returned for want of a candidate
C2_Witness ==
    /\ pc = "finish"
    /\ kind = "series"
    /\ lastError = "no translators"
    /\ nGetStream = 0
    /\ stats.total_downloads = 0

\* C6 (as claimed): one option is taken silently only when the
\* auto-select-single setting is enabled.
C6_SingleOnlyWhenEnabled ==
    picked.via = "single" => (picked.n = 1 /\ config.auto_select_single_option)

\* C7 (as claimed): a prompt over n options returns only after an input k in
\* 1..n.
C7_PromptAcceptsOnlyListed ==
    picked.via = "prompt" =>
        (ParsesInt(picked.tok) /\ IntOf(picked.tok) \in 1..picked.n)

\* the errors that end one content item: no candidate translator, no stream,
\* no qualities
ResolutionErrors ==
    {"no series info", "no translations", "no translators", "no test stream",
     "no movie stream", "no qualities", "quality unavailable"}

\* C9 (as claimed): after a resolution error the session goes on; the program
\* is not on its way out.
C9_SessionGoesOn ==
    lastError \in ResolutionErrors => pc \notin {"exit_wait", "exited"}

\* C9 (amended): a resolution error ends the content processing with failure;
\* main then re-executes the program when auto_reload is set (and the fresh
\* image shows the top-level menu), and otherwise waits for Enter and ends.
C9_ErrorThenReloadOrExit ==
    [][/\ (lastError' \in ResolutionErrors /\ lastError' # lastError)
          => (pc' = "finish" /\ success' = FALSE)
       /\ (pc = "finish" /\ lastError \in ResolutionErrors)
          => \/ config.auto_reload /\ pc' = "start"
             \/ ~config.auto_reload /\ pc' = "exit_wait"
       /\ pc = "start" => pc' = "menu"
       /\ pc = "exit_wait" => pc' \in {"exited", "interrupted"}]_vars

\* C9 happens: after a resolution error, with auto_reload off, the program
\* waits for the Enter that ends it
C9_Witness ==
    /\ pc = "exit_wait"
    /\ lastError = "no translators"
    /\ ~config.auto_reload

\* C10: after every iteration of the batch loop, and so after the pass, each
\* processed target is counted once in successful_downloads or is once in
\* failed_downloads with a reason, never both and never neither.
C10_OneOutcomePerTarget ==
    pc \in {"batch", "report"} =>
        /\ successful_downloads + Len(failed_downloads) = idx - 1
        /\ Cardinality(okTargets) = successful_downloads
        /\ \A k \in 1..(idx - 1) :
              LET t == episodes_to_download[k]
                  fails == {i \in DOMAIN failed_downloads :
                               <<failed_downloads[i][1], failed_downloads[i][2]>> = t}
              IN  \/ t \in okTargets /\ fails = {}
                  \/ t \notin okTargets /\ Cardinality(fails) = 1
        /\ \A i \in DOMAIN failed_downloads :
              failed_downloads[i][3] \in {MsgNoStream, MsgNetwork, MsgError, MsgException}
        /\ pc = "report" => idx - 1 = Len(episodes_to_download)

\* C10 happens: a pass over two targets, one downloaded and one that raised
C10_Witness ==
    /\ pc = "report"
    /\ Len(episodes_to_download) = 2
    /\ successful_downloads = 1
    /\ Len(failed_downloads) = 1
    /\ failed_downloads[1][3] = MsgException

\* C8: a download_file call that finds its destination path returns success,
\* has sent no HEAD and no GET, and has made no directory, created or
\* truncated no file (and so written none); so has every such call.
C8_ExistingPathShortCircuits ==
    \A c \in Callers :
        calls[c].existed
        => /\ calls[c].pc \in {"finally", "finally_store", "idle"}
           /\ calls[c].result = [ok |-> TRUE, message |-> MsgExists]
           /\ calls[c].head = 0
           /\ calls[c].get = 0
           /\ ~calls[c].madeDir
           /\ ~calls[c].opened

\* C8 happens: two calls for the same existing path have both returned, and
\* the counters show nothing else was done
C8_Witness ==
    /\ nCalls >= 2
    /\ \A c \in {1, 2} :
          /\ calls[c].pc = "idle"
          /\ calls[c].existed
          /\ calls[c].path = calls[1].path
          /\ calls[c].result.ok
    /\ stats.total_downloads = nCalls
    /\ stats.successful_downloads = 0

\* every caller is outside download_file
Quiescent == \A c \in Callers : calls[c].pc = "idle"

\* C11: once the concurrent download_file calls have all returned,
\* total_downloads is the number of calls, successful_downloads the number of
\* calls that completed a transfer and total_bytes the sum of the lengths of
\* the chunks written: no update was lost. The counters are read and written
\* only by the holder of download_lock, and never run ahead of what was done.
C11_CountersExact ==
    /\ Quiescent =>
          /\ stats.total_downloads = nCalls
          /\ stats.successful_downloads = ledger.transferred
          /\ stats.total_bytes = ledger.bytes
    /\ \A c \in Callers :
          calls[c].pc \in {"count_store", "succeed_store", "finally_store"}
          => download_lock = c
    /\ stats.total_downloads <= nCalls
    /\ stats.successful_downloads <= ledger.transferred
    /\ stats.total_bytes <= ledger.bytes

\* C11 happens: two calls that both transferred chunks have returned
C11_Witness ==
    /\ Quiescent
    /\ nCalls >= 2
    /\ ledger.transferred >= 2
    /\ ledger.succeeded >= 2
    /\ stats.successful_downloads >= 2
    /\ stats.total_bytes >= 2 * CHUNK_SIZE
    /\ stats.total_downloads = nCalls

\* a fault a call met has become its failure result, with the reason string
\* of its kind
FaultsBecomeFailures ==
    \A c \in Callers :
        calls[c].fault # None
        => /\ calls[c].pc \in {"finally", "finally_store", "idle"}
           /\ ~calls[c].result.ok
           /\ calls[c].result.message =
                 IF calls[c].fault = "request_error" THEN MsgNetwork ELSE MsgError

\* C12 (as claimed): a fault becomes a failure result with a reason, and a
\* call sends HEAD at most once and GET at most once.
C12_EachRequestSentOnce ==
    /\ FaultsBecomeFailures
    /\ \A c \in Callers : calls[c].head <= 1 /\ calls[c].get <= 1

\* C12 (amended): a fault becomes a failure result with a reason;
\* download_file has no retry loop of its own, but its session sends HEAD, and
\* GET, up to 1 + MAX_RETRIES times before the call gives up or goes on.
C12_RetriedBySessionOnly ==
    /\ FaultsBecomeFailures
    /\ \A c \in Callers :
          /\ calls[c].head <= 1 + MAX_RETRIES
          /\ calls[c].get <= 1 + MAX_RETRIES
          /\ calls[c].get > 0 => calls[c].head > 0

\* C12 happens: a call whose HEAD was sent 1 + MAX_RETRIES times has failed
\* with the network reason
C12_Witness ==
    \E c \in Callers :
        /\ calls[c].pc = "finally"
        /\ calls[c].fault = "request_error"
        /\ calls[c].head = 1 + MAX_RETRIES
        /\ calls[c].get = 0
        /\ calls[c].result = [ok |-> FALSE, message |-> MsgNetwork]

\* C14 (as claimed): once the download_file calls have returned,
\* total_downloads = successful_downloads + failed_downloads, where
\* failed_downloads counts the calls that returned failure and
\* successful_downloads those that returned success, a file already there
\* included.
C14_CountersAddUp ==
    Quiescent =>
        /\ stats.total_downloads = stats.successful_downloads + stats.failed_downloads
        /\ stats.failed_downloads = ledger.failed
        /\ stats.successful_downloads = ledger.succeeded

\* the priority table of the claim, highest first; a label in no class is
\* unranked
ClaimedClasses ==
    << {<<"4", "K">>, <<"2", "1", "6", "0", "p">>},
       {<<"2", "K">>, <<"1", "4", "4", "0", "p">>},
       {<<"F", "H", "D">>, Q1080},
       {<<"H", "D">>, Q720},
       {<<"S", "D">>, <<"4", "8", "0", "p">>},
       {Q360} >>

ClaimedRank(label) ==
    LET hits == {i \in DOMAIN ClaimedClasses : label \in ClaimedClasses[i]}
    IN  IF hits = {} THEN 0 ELSE Len(ClaimedClasses) + 1 - Min(hits)

\* where x stands in a list without repetitions
IndexOf(seq, x) == CHOOSE i \in DOMAIN seq : seq[i] = x

\* C13 (as claimed): the list select_quality shows is a permutation of the
\* available list in descending order of the table 4K/2160p > 2K/1440p >
\* FHD/1080p > HD/720p > SD/480p > 360p > unranked, labels of equal rank in
\* their original order, and the quality returned is one of the available.
C13_ShownByClaimedTable ==
    /\ pc = "quality_prompt" =>
          LET shown == sorted_qualities_of(qualities) IN
          /\ Len(shown) = Len(qualities)
          /\ Range(shown) = Range(qualities)
          /\ \A i, j \in DOMAIN shown :
                i < j =>
                   \/ ClaimedRank(shown[i]) > ClaimedRank(shown[j])
                   \/ /\ ClaimedRank(shown[i]) = ClaimedRank(shown[j])
                      /\ IndexOf(qualities, shown[i]) < IndexOf(qualities, shown[j])
    /\ pc \in {"mkdir", "movie_download"} => selected_quality \in Range(qualities)

====
